---- MODULE Spec2Model ----
(***************************************************************************)
(* Model of src/food/food_app.py: a Streamlit script that loads three      *)
(* pickled artifacts and a CSV, renders a form, and on "Predict Price"     *)
(* validates the date, encodes one row, scales, predicts and plots the     *)
(* history.  Streamlit runs the script from the top on every interaction;  *)
(* st.stop() ends the current run.                                         *)
(***************************************************************************)
EXTENDS Integers, Sequences, FiniteSets, TLC

VARIABLES
    fs,              \* paths that exist on disk
    corrupt,         \* paths whose content fails to deserialize / parse
    pklColumns,      \* the list pickled in model_columns.pkl
    csvCols,         \* header of Export.csv
    csvRows,         \* rows of Export.csv (date still text)
    pc,              \* position of the current script run
    button,          \* st.sidebar.button("Predict Price") of this run
    loaded_model, sc, X_columns,
    food,            \* the DataFrame, a sequence of rows
    widgets,         \* region .. pricetype, year, month, day
    week, input_encoded, predicted_price,
    out,             \* elements this run has put on the page
    calls,           \* calls this run has made to scaler, model, matplotlib
    trail            \* handler phases this run has entered, in order

envVars == <<fs, corrupt, pklColumns, csvCols, csvRows>>
artVars == <<loaded_model, sc, X_columns>>
reqVars == <<week, input_encoded, predicted_price>>
vars == <<fs, corrupt, pklColumns, csvCols, csvRows, pc, button, loaded_model,
          sc, X_columns, food, widgets, week, input_encoded, predicted_price,
          out, calls, trail>>

-----------------------------------------------------------------------------
(* Bounds and program constants *)

MaxRows == 3

MinYear == 2000
MaxYear == 2050
DefaultYear == 2024

Range(s) == {s[i] : i \in DOMAIN s}

SeqsUpTo(S, n) == UNION {[1..k -> S] : k \in 0..n}

-----------------------------------------------------------------------------
(* datetime(int(year), int(month), int(day)) and .isocalendar()[1]          *)

is_leap(y) == y % 4 = 0 /\ (y % 100 # 0 \/ y % 400 = 0)

DAYS_IN_MONTH == <<31, 28, 31, 30, 31, 30, 31, 31, 30, 31, 30, 31>>

days_in_month_unchecked(y, m) == 31

days_in_month(y, m) == IF m = 2 /\ is_leap(y) THEN 29 ELSE DAYS_IN_MONTH[m]

days_before_year(y) ==
    (y - 1) * 365 + (y - 1) \div 4 - (y - 1) \div 100 + (y - 1) \div 400

RECURSIVE days_before_month(_, _)
days_before_month(y, m) ==
    IF m = 1 THEN 0 ELSE days_before_month(y, m - 1) + days_in_month(y, m - 1)

ymd2ord(y, m, d) == days_before_year(y) + days_before_month(y, m) + d

\* datetime(...) raises ValueError unless the fields form a date
check_date_fields(y, m, d) ==
    /\ 1 <= y /\ y <= 9999
    /\ 1 <= m /\ m <= 12
    /\ 1 <= d /\ d <= days_in_month(y, m)

isoweek1monday_late(y) ==
    LET firstday == ymd2ord(y, 1, 1)
        firstweekday == (firstday + 6) % 7
        week1monday == firstday - firstweekday
    IN  IF firstweekday > 4 THEN week1monday + 7 ELSE week1monday

isoweek1monday(y) ==
    LET firstday == ymd2ord(y, 1, 1)
        firstweekday == (firstday + 6) % 7
        week1monday == firstday - firstweekday
    IN  IF firstweekday > 3 THEN week1monday + 7 ELSE week1monday

\* date_input.isocalendar()[1]
isocalendar_week(y, m, d) ==
    LET today == ymd2ord(y, m, d)
        w == (today - isoweek1monday(y)) \div 7
    IN  IF w < 0 THEN (today - isoweek1monday(y - 1)) \div 7 + 1
        ELSE IF w >= 52 /\ today >= isoweek1monday(y + 1) THEN 1
        ELSE w + 1

-----------------------------------------------------------------------------
(* Files *)

MODEL_FILE == "finalized_model.sav"
SCALER_FILE == "scaler.sav"
COLUMNS_FILE == "model_columns.pkl"
CSV_FILE == "Export.csv"
BG_FILE == "back.jfif"

ArtifactFiles == <<MODEL_FILE, SCALER_FILE, COLUMNS_FILE>>

\* a copy of an artifact kept under a subdirectory; the script never looks there
UnderSubdir(name) == "models/" \o name

CanLoad(path) == path \in fs /\ path \notin corrupt

required_cols == <<"admin1", "admin2", "market", "category", "commodity",
                   "unit", "priceflag", "pricetype", "price", "date">>

missing_cols_skip_last(cols) ==
    SelectSeq(SubSeq(required_cols, 1, Len(required_cols) - 2),
              LAMBDA c : c \notin cols)

\* [c for c in required_cols if c not in food.columns]
missing_cols(cols) == SelectSeq(required_cols, LAMBDA c : c \notin cols)

-----------------------------------------------------------------------------
(* The dataset *)

NaN == "nan"      \* a missing categorical cell
None == "None"    \* what st.selectbox returns for an empty option list

CatFields == <<"admin1", "admin2", "market", "category", "commodity",
               "unit", "priceflag", "pricetype">>

AllCsvCols == Range(required_cols) \cup {"latitude"}

Row(commodity, region, market, price, date) ==
    [admin1 |-> region, admin2 |-> "Dodoma Urban", market |-> market,
     category |-> "cereals and tubers", commodity |-> commodity,
     unit |-> "KG", priceflag |-> "actual", pricetype |-> "Wholesale",
     price |-> price, date |-> date, latitude |-> "-6.17"]

\* the strings of the model's datasets, in the order sorted() gives them
Lex == <<"Arusha", "Arusha Market", "Dodoma", "Dodoma Central",
         "Dodoma Urban", "KG", "Maize", "Rice", "Wholesale", "actual",
         "cereals and tubers">>

\* date texts pd.to_datetime can parse; a Timestamp is written as pandas
\* prints it, and a cell that does not parse becomes NaT
DateTexts == {"2023-05-15", "2023-06-01", "2023-07-01"}
NaT == "NaT"

Timestamp(text) == text \o " 00:00:00"

\* pd.to_datetime(food['date'], errors='coerce'), one cell
to_datetime(text) == IF text \in DateTexts THEN Timestamp(text) ELSE NaT

\* the day a Timestamp falls on, which is what sorting compares
toordinal(ts) ==
    CASE ts = Timestamp("2023-05-15") -> ymd2ord(2023, 5, 15)
      [] ts = Timestamp("2023-06-01") -> ymd2ord(2023, 6, 1)
      [] ts = Timestamp("2023-07-01") -> ymd2ord(2023, 7, 1)

\* pd.read_csv: the rows, each with the columns the header names
read_csv(cols, rows) == [i \in DOMAIN rows |-> [c \in cols |-> rows[i][c]]]

convert_date(df) ==
    [i \in DOMAIN df |-> [df[i] EXCEPT !["date"] = to_datetime(df[i]["date"])]]

\* sorted(food[col].dropna().unique())
options(df, col) ==
    SelectSeq(Lex, LAMBDA v : v # NaN /\ \E i \in DOMAIN df : df[i][col] = v)

\* st.sidebar.selectbox(label, options) before the user touches it
selectbox_default(opts) == IF Len(opts) = 0 THEN None ELSE opts[1]

SelectChoices(opts) == IF Len(opts) = 0 THEN {None} ELSE Range(opts)

-----------------------------------------------------------------------------
(* Encoding: pd.DataFrame([input_dict]), pd.get_dummies, reindex *)

Col(name, value) == [name |-> name, value |-> value]

dummy_name_equals(field, value) == field \o "=" \o value

\* pandas names an indicator column prefix + prefix_sep + value, prefix_sep '_'
dummy_name(field, value) == field \o "_" \o value

\* the categorical entries of input_dict: column name and the widget it reads
InputCats == <<<<"admin1", "region">>, <<"admin2", "district">>,
               <<"market", "market">>, <<"category", "category">>,
               <<"commodity", "commodity">>, <<"unit", "unit">>,
               <<"priceflag", "priceflag">>, <<"pricetype", "pricetype">>>>

RECURSIVE dummies(_, _)
dummies(w, k) ==
    IF k > Len(InputCats) THEN <<>>
    ELSE LET field == InputCats[k][1]
             value == w[InputCats[k][2]]
         IN  (IF value = None THEN <<>>
              ELSE <<Col(dummy_name(field, value), 1)>>) \o dummies(w, k + 1)

\* pd.get_dummies(input_df): numeric columns first, then the indicators
get_dummies(w, wk) ==
    <<Col("year", w.year), Col("month", w.month), Col("day", w.day),
      Col("week", wk)>> \o dummies(w, 1)

Lookup(encoded, name, fill_value) ==
    IF \E i \in DOMAIN encoded : encoded[i].name = name
    THEN encoded[CHOOSE i \in DOMAIN encoded : encoded[i].name = name].value
    ELSE fill_value

reindex_keep_extra(encoded, columns) ==
    [i \in DOMAIN columns |-> Col(columns[i], Lookup(encoded, columns[i], 0))]
    \o SelectSeq(encoded, LAMBDA c : c.name \notin Range(columns))

\* input_encoded.reindex(columns=X_columns, fill_value=0)
reindex(encoded, columns) ==
    [i \in DOMAIN columns |-> Col(columns[i], Lookup(encoded, columns[i], 0))]

-----------------------------------------------------------------------------
(* History: boolean-mask filter, copy, sort_values('date') *)

history_ignore_market(df, w) ==
    SelectSeq(df, LAMBDA r : r["commodity"] = w.commodity
                             /\ r["admin1"] = w.region)

\* food[(commodity == ..) & (admin1 == ..) & (market == ..)].copy()
history_filter(df, w) ==
    SelectSeq(df, LAMBDA r : /\ r["commodity"] = w.commodity
                             /\ r["admin1"] = w.region
                             /\ r["market"] = w.market)

\* insert row r into the date-ordered sequence s, after rows of equal date
RECURSIVE insert_by_date(_, _)
insert_by_date(s, r) ==
    IF s = <<>> THEN <<r>>
    ELSE IF toordinal(r["date"]) < toordinal(Head(s)["date"]) THEN <<r>> \o s
    ELSE <<Head(s)>> \o insert_by_date(Tail(s), r)

RECURSIVE sort_dated(_)
sort_dated(s) ==
    IF s = <<>> THEN <<>>
    ELSE insert_by_date(sort_dated(SubSeq(s, 1, Len(s) - 1)), s[Len(s)])

sort_values_unsorted(df) == df

\* history.sort_values('date'): ascending, rows without a date last
sort_values(df) ==
    sort_dated(SelectSeq(df, LAMBDA r : r["date"] # NaT))
    \o SelectSeq(df, LAMBDA r : r["date"] = NaT)

-----------------------------------------------------------------------------
(* Page output and outside calls *)

Msg(kind, text, arg) == [kind |-> kind, text |-> text, arg |-> arg]

\* f"{predicted_price:,.2f}"
format_price(price) == CASE price = 1200 -> "1,200.00"
Call(fn, args, result) == [fn |-> fn, args |-> args, result |-> result]

Shown(kind, text) == \E i \in DOMAIN out : out[i].kind = kind /\ out[i].text = text
Called(fn) == \E i \in DOMAIN calls : calls[i].fn = fn

INVALID_DATE == "Invalid date entered!"
NO_HISTORY == "No historical data available for selected filters."
PREDICTED == "Predicted Market Price"
PREDICTION_ERROR == "Prediction error"
MODEL_ERROR == "Error loading model files"
CSV_ERROR == "Error loading CSV file"
COLUMNS_ERROR == "Missing columns in CSV"

-----------------------------------------------------------------------------
(* Initial states: what is on disk when the page is first opened *)

AllBare == {MODEL_FILE, SCALER_FILE, COLUMNS_FILE, CSV_FILE, BG_FILE}

FsScenarios ==
    {AllBare, AllBare \ {BG_FILE}, AllBare \ {CSV_FILE}}
    \cup {AllBare \ {f} : f \in Range(ArtifactFiles)}
    \cup {(AllBare \ {f}) \cup {UnderSubdir(f)} : f \in Range(ArtifactFiles)}
    \cup {AllBare \cup {UnderSubdir(f) : f \in Range(ArtifactFiles)}}

CorruptScenarios == {{}, {SCALER_FILE}, {CSV_FILE}}

ColsScenarios ==
    {AllCsvCols, Range(required_cols), Range(required_cols) \ {"price"},
     AllCsvCols \ {"unit", "date"}}

Schemas ==
    {<<"year", "month", "day", "week", "admin1_Dodoma", "commodity_Maize",
       "commodity_Rice", "market_Dodoma Central">>,
     <<"commodity_Maize", "commodity_Beans">>,
     <<"week", "commodity=Maize", "commodity_Maize">>}

Maize1 == Row("Maize", "Dodoma", "Dodoma Central", 1000, "2023-06-01")
Rice1 == Row("Rice", "Arusha", "Arusha Market", 2500, "2023-05-15")

SampleData ==
    {<<>>, <<Maize1>>, <<Maize1, Rice1>>,
     <<Row("Maize", "Dodoma", "Dodoma Central", 1100, "2023-07-01"),
       Row(NaN, "Dodoma", "Dodoma Central", 900, "n/a"), Maize1>>}

\* every row the history specifications draw datasets from
PriceOn(d) ==
    CASE d = "2023-05-15" -> 1500
      [] d = "2023-06-01" -> 1000
      [] d = "2023-07-01" -> 1200
      [] OTHER -> 900

RowUniverse ==
    {Row("Maize", "Dodoma", "Dodoma Central", PriceOn(d), d) :
        d \in DateTexts \cup {"n/a"}}
    \cup {Row("Rice", "Arusha", "Arusha Market", PriceOn(d) + 1000, d) :
        d \in DateTexts \cup {"n/a"}}

SampleDates ==
    {<<2024, 1, 1>>, <<2024, 2, 29>>, <<2024, 2, 30>>, <<2023, 2, 29>>,
     <<2024, 12, 31>>, <<2025, 4, 31>>}

FormDates == (MinYear..MaxYear) \X (1..12) \X (1..31)

NoWidgets ==
    [region |-> None, district |-> None, market |-> None, category |-> None,
     commodity |-> None, unit |-> None, priceflag |-> None,
     pricetype |-> None, year |-> DefaultYear, month |-> 1, day |-> 1]

InitWith(FsSet, CorruptSet, ColsSet, RowsSet, SchemaSet) ==
    /\ fs \in FsSet
    /\ corrupt \in CorruptSet
    /\ csvCols \in ColsSet
    /\ csvRows \in RowsSet
    /\ pklColumns \in SchemaSet
    /\ pc = "set_bg"
    /\ button = FALSE
    /\ loaded_model = "unset" /\ sc = "unset" /\ X_columns = <<>>
    /\ food = <<>>
    /\ widgets = NoWidgets
    /\ week = 0 /\ input_encoded = <<>> /\ predicted_price = 0
    /\ out = <<>> /\ calls = <<>> /\ trail = <<>>

Init == InitWith(FsScenarios, CorruptScenarios, ColsScenarios, SampleData, Schemas)

-----------------------------------------------------------------------------
(* One script run, top to bottom *)

\* st.stop() before the form exists: nothing can be submitted in this run
Halt(msg) ==
    /\ out' = Append(out, msg)
    /\ pc' = "halted"

\* st.stop() inside the button handler: the run ends with the form on the page
Abort(msg) ==
    /\ out' = Append(out, msg)
    /\ pc' = "idle"
    /\ trail' = Append(trail, "idle")

SetBg ==
    /\ pc = "set_bg"
    /\ out' = IF BG_FILE \in fs THEN out
              ELSE Append(out, Msg("warning", "Background image not found", <<>>))
    /\ pc' = "load_models"
    /\ UNCHANGED <<envVars, button, artVars, food, widgets, reqVars, calls, trail>>

FirstUnloadable(paths) ==
    paths[CHOOSE i \in DOMAIN paths :
            /\ ~CanLoad(paths[i])
            /\ \A j \in 1..(i - 1) : CanLoad(paths[j])]

LoadModels_AnyPath ==
    /\ pc = "load_models"
    /\ IF \A i \in DOMAIN ArtifactFiles :
            CanLoad(ArtifactFiles[i]) \/ CanLoad(UnderSubdir(ArtifactFiles[i]))
       THEN /\ loaded_model' = "model" /\ sc' = "scaler"
            /\ X_columns' = pklColumns
            /\ pc' = "load_dataset"
            /\ out' = out
       ELSE /\ UNCHANGED artVars
            /\ Halt(Msg("error", MODEL_ERROR, <<>>))
    /\ UNCHANGED <<envVars, button, food, widgets, reqVars, calls, trail>>

LoadModels ==
    /\ pc = "load_models"
    /\ IF \A i \in DOMAIN ArtifactFiles : CanLoad(ArtifactFiles[i])
       THEN /\ loaded_model' = "model" /\ sc' = "scaler"
            /\ X_columns' = pklColumns
            /\ pc' = "load_dataset"
            /\ out' = out
       ELSE /\ loaded_model' = IF CanLoad(MODEL_FILE) THEN "model" ELSE loaded_model
            /\ sc' = IF CanLoad(MODEL_FILE) /\ CanLoad(SCALER_FILE)
                     THEN "scaler" ELSE sc
            /\ X_columns' = X_columns
            /\ Halt(Msg("error", MODEL_ERROR, <<FirstUnloadable(ArtifactFiles)>>))
    /\ UNCHANGED <<envVars, button, food, widgets, reqVars, calls, trail>>

LoadDataset ==
    /\ pc = "load_dataset"
    /\ IF CanLoad(CSV_FILE)
       THEN /\ food' = read_csv(csvCols, csvRows)
            /\ pc' = "check_columns"
            /\ out' = out
       ELSE /\ food' = food
            /\ Halt(Msg("error", CSV_ERROR, <<CSV_FILE>>))
    /\ UNCHANGED <<envVars, button, artVars, widgets, reqVars, calls, trail>>

CheckColumns ==
    /\ pc = "check_columns"
    /\ IF missing_cols(csvCols) # <<>>
       THEN /\ food' = food
            /\ Halt(Msg("error", COLUMNS_ERROR, missing_cols(csvCols)))
       ELSE /\ food' = convert_date(food)
            /\ pc' = "form"
            /\ out' = out
    /\ UNCHANGED <<envVars, button, artVars, widgets, reqVars, calls, trail>>

\* the selectboxes and number inputs: defaults on the first run, afterwards
\* the values the user left in them
RenderForm ==
    /\ pc = "form"
    /\ widgets' =
         IF button THEN widgets
         ELSE [NoWidgets EXCEPT
                 !.region = selectbox_default(options(food, "admin1")),
                 !.district = selectbox_default(options(food, "admin2")),
                 !.market = selectbox_default(options(food, "market")),
                 !.category = selectbox_default(options(food, "category")),
                 !.commodity = selectbox_default(options(food, "commodity")),
                 !.unit = selectbox_default(options(food, "unit")),
                 !.priceflag = selectbox_default(options(food, "priceflag")),
                 !.pricetype = selectbox_default(options(food, "pricetype"))]
    /\ pc' = IF button THEN "validating" ELSE "idle"
    /\ trail' = IF button THEN Append(trail, "validating") ELSE trail
    /\ UNCHANGED <<envVars, button, artVars, food, reqVars, out, calls>>

-----------------------------------------------------------------------------
(* The "Predict Price" handler *)

ValidateDate_Lenient ==
    /\ pc = "validating"
    /\ week' = IF check_date_fields(widgets.year, widgets.month, widgets.day)
               THEN isocalendar_week(widgets.year, widgets.month, widgets.day)
               ELSE 1
    /\ pc' = "encoding"
    /\ trail' = Append(trail, "encoding")
    /\ out' = out
    /\ UNCHANGED <<envVars, button, artVars, food, widgets, input_encoded,
                   predicted_price, calls>>

ValidateDate ==
    /\ pc = "validating"
    /\ IF check_date_fields(widgets.year, widgets.month, widgets.day)
       THEN /\ week' = isocalendar_week(widgets.year, widgets.month, widgets.day)
            /\ pc' = "encoding"
            /\ trail' = Append(trail, "encoding")
            /\ out' = out
       ELSE /\ week' = week
            /\ Abort(Msg("error", INVALID_DATE, <<>>))
    /\ UNCHANGED <<envVars, button, artVars, food, widgets, input_encoded,
                   predicted_price, calls>>

Encode ==
    /\ pc = "encoding"
    /\ input_encoded' = reindex(get_dummies(widgets, week), X_columns)
    /\ pc' = "predicting"
    /\ trail' = Append(trail, "predicting")
    /\ UNCHANGED <<envVars, button, artVars, food, widgets, week,
                   predicted_price, out, calls>>

PredictOutcomes == {"ok", "transform raises", "predict raises"}
PredictedPrices == {1200}

ScalePredict_ShowAnyway ==
    /\ pc = "predicting"
    /\ \E outcome \in PredictOutcomes, price \in PredictedPrices :
         /\ calls' = calls
              \o <<Call("transform", input_encoded,
                        IF outcome = "transform raises" THEN "raised" ELSE "returned")>>
              \o (IF outcome = "transform raises" THEN <<>>
                  ELSE <<Call("predict", <<>>,
                              IF outcome = "predict raises" THEN "raised" ELSE "returned")>>)
         /\ predicted_price' = price
         /\ out' = out \o (IF outcome = "ok" THEN <<>>
                           ELSE <<Msg("error", PREDICTION_ERROR, <<outcome>>)>>)
                       \o <<Msg("markdown", PREDICTED, <<format_price(price)>>)>>
         /\ pc' = "rendering"
         /\ trail' = Append(trail, "rendering")
    /\ UNCHANGED <<envVars, button, artVars, food, widgets, week, input_encoded>>

\* sc.transform, loaded_model.predict: either may raise; on success the
\* predicted price is written to the page
ScalePredict ==
    /\ pc = "predicting"
    /\ \E outcome \in PredictOutcomes, price \in PredictedPrices :
         /\ calls' = calls
              \o <<Call("transform", input_encoded,
                        IF outcome = "transform raises" THEN "raised" ELSE "returned")>>
              \o (IF outcome = "transform raises" THEN <<>>
                  ELSE <<Call("predict", <<>>,
                              IF outcome = "predict raises" THEN "raised" ELSE "returned")>>)
         /\ IF outcome = "ok"
            THEN /\ predicted_price' = price
                 /\ out' = Append(out, Msg("markdown", PREDICTED, <<format_price(price)>>))
                 /\ pc' = "rendering"
                 /\ trail' = Append(trail, "rendering")
            ELSE /\ predicted_price' = predicted_price
                 /\ Abort(Msg("error", PREDICTION_ERROR, <<outcome>>))
    /\ UNCHANGED <<envVars, button, artVars, food, widgets, week, input_encoded>>

Dates(df) == [i \in DOMAIN df |-> df[i]["date"]]
Prices(df) == [i \in DOMAIN df |-> df[i]["price"]]

Render ==
    /\ pc = "rendering"
    /\ LET history == history_filter(food, widgets)
           history_sorted == sort_values(history)
       IN  IF history # <<>>
           THEN /\ calls' = calls \o
                      <<Call("plot", <<Dates(history_sorted), Prices(history_sorted)>>,
                             "returned"),
                        Call("axhline", <<predicted_price>>, "returned"),
                        Call("pyplot", <<>>, "returned")>>
                /\ out' = out \o <<Msg("markdown", "Historical Price Trend", <<>>),
                                   Msg("pyplot", "fig", <<>>)>>
           ELSE /\ calls' = calls
                /\ out' = out \o <<Msg("markdown", "Historical Price Trend", <<>>),
                                   Msg("warning", NO_HISTORY, <<>>)>>
    /\ pc' = "idle"
    /\ trail' = Append(trail, "idle")
    /\ UNCHANGED <<envVars, button, artVars, food, widgets, reqVars>>

\* the user sets the widgets and presses "Predict Price": the script reruns
Submit(dates) ==
    /\ pc = "idle"
    /\ \E region \in SelectChoices(options(food, "admin1")),
          market \in SelectChoices(options(food, "market")),
          commodity \in SelectChoices(options(food, "commodity")),
          date \in dates :
         widgets' = [widgets EXCEPT !.region = region, !.market = market,
                                    !.commodity = commodity, !.year = date[1],
                                    !.month = date[2], !.day = date[3]]
    /\ button' = TRUE
    /\ pc' = "set_bg"
    /\ week' = 0 /\ input_encoded' = <<>> /\ predicted_price' = 0
    /\ out' = <<>> /\ calls' = <<>>
    /\ trail' = <<"submitted">>
    /\ UNCHANGED <<envVars, artVars, food>>

Run ==
    \/ SetBg
    \/ LoadModels
    \/ LoadDataset
    \/ CheckColumns
    \/ RenderForm
    \/ ValidateDate
    \/ Encode
    \/ ScalePredict
    \/ Render

Next == Run \/ Submit(SampleDates)

Spec == Init /\ [][Next]_vars

\* a run, once started, executes to its end: the script has no waits
\* (every step of Run changes pc, so fairness on pc is fairness on vars)
FairSpec == Spec /\ WF_pc(Run)

\* The handler alone, on every date the form accepts: the state in which
\* RenderForm leaves a button run, for one dataset and one selection
InitDate ==
    /\ fs = AllBare /\ corrupt = {}
    /\ csvCols = AllCsvCols /\ csvRows = <<Maize1>>
    /\ pklColumns = <<"year", "month", "day", "week", "commodity_Maize">>
    /\ pc = "validating"
    /\ button = TRUE
    /\ loaded_model = "model" /\ sc = "scaler" /\ X_columns = pklColumns
    /\ food = convert_date(read_csv(csvCols, csvRows))
    /\ \E date \in FormDates :
         widgets = [region |-> "Dodoma", district |-> "Dodoma Urban",
                    market |-> "Dodoma Central",
                    category |-> "cereals and tubers", commodity |-> "Maize",
                    unit |-> "KG", priceflag |-> "actual",
                    pricetype |-> "Wholesale", year |-> date[1],
                    month |-> date[2], day |-> date[3]]
    /\ week = 0 /\ input_encoded = <<>> /\ predicted_price = 0
    /\ out = <<>> /\ calls = <<>>
    /\ trail = <<"submitted", "validating">>

NextDate == ValidateDate \/ Encode \/ ScalePredict \/ Render

SpecDate == InitDate /\ [][NextDate]_vars

\* every dataset of up to MaxRows rows, one date
InitTrend ==
    InitWith({AllBare}, {{}}, {AllCsvCols}, SeqsUpTo(RowUniverse, MaxRows),
             {<<"commodity_Maize", "commodity_Beans">>})

NextTrend == Run \/ Submit({<<2024, 1, 1>>})

SpecTrend == InitTrend /\ [][NextTrend]_vars

-----------------------------------------------------------------------------
(* Vocabulary of the properties *)

Entered(phase) == \E i \in DOMAIN trail : trail[i] = phase

\* the Gregorian calendar, stated without the library's tables
RealDate(y, m, d) ==
    /\ m \in 1..12
    /\ d >= 1
    /\ d <= (CASE m \in {4, 6, 9, 11} -> 30
               [] m = 2 -> IF (y % 4 = 0 /\ y % 100 # 0) \/ y % 400 = 0
                           THEN 29 ELSE 28
               [] OTHER -> 31)

InFormRange ==
    /\ widgets.year \in MinYear..MaxYear
    /\ widgets.month \in 1..12
    /\ widgets.day \in 1..31

\* ISO 8601 week of a real date, by day-of-year and weekday arithmetic
DayOfYear(y, m, d) ==
    <<0, 31, 59, 90, 120, 151, 181, 212, 243, 273, 304, 334>>[m] + d
    + (IF m > 2 /\ RealDate(y, 2, 29) THEN 1 ELSE 0)

\* Monday = 1 .. Sunday = 7
DayOfWeek(y, m, d) ==
    LET yy == IF m < 3 THEN y - 1 ELSE y
        t == <<0, 3, 2, 5, 0, 3, 5, 1, 4, 6, 2, 4>>[m]
        sun0 == (yy + yy \div 4 - yy \div 100 + yy \div 400 + t + d) % 7
    IN  IF sun0 = 0 THEN 7 ELSE sun0

Dec31Weekday(y) == (y + y \div 4 - y \div 100 + y \div 400) % 7

WeeksInYear(y) ==
    IF Dec31Weekday(y) = 4 \/ Dec31Weekday(y - 1) = 3 THEN 53 ELSE 52

ISOWeek(y, m, d) ==
    LET w == (10 + DayOfYear(y, m, d) - DayOfWeek(y, m, d)) \div 7
    IN  IF w < 1 THEN WeeksInYear(y - 1)
        ELSE IF w > WeeksInYear(y) THEN 1
        ELSE w

OnDate(y, m, d) == widgets.year = y /\ widgets.month = m /\ widgets.day = d

RequiredSet == {"admin1", "admin2", "market", "category", "commodity", "unit",
                "priceflag", "pricetype", "price", "date"}

ConfigBroken ==
    \/ \E f \in {MODEL_FILE, SCALER_FILE, COLUMNS_FILE, CSV_FILE} : ~CanLoad(f)
    \/ ~(RequiredSet \subseteq csvCols)

Raised ==
    \E i \in DOMAIN calls :
        calls[i].fn \in {"transform", "predict"} /\ calls[i].result = "raised"

Returned(fn) ==
    \E i \in DOMAIN calls : calls[i].fn = fn /\ calls[i].result = "returned"

CountCalls(fn) == Cardinality({i \in DOMAIN calls : calls[i].fn = fn})

\* dataset rows equal to the selection in commodity, region and market
Matching ==
    {i \in DOMAIN food : /\ food[i]["commodity"] = widgets.commodity
                         /\ food[i]["admin1"] = widgets.region
                         /\ food[i]["market"] = widgets.market}

PlotArgs == calls[CHOOSE i \in DOMAIN calls : calls[i].fn = "plot"].args

\* the model's Timestamps in calendar order
Calendar == <<"2023-05-15 00:00:00", "2023-06-01 00:00:00",
              "2023-07-01 00:00:00">>

NotAfter(a, b) ==
    \E i, j \in DOMAIN Calendar : i <= j /\ Calendar[i] = a /\ Calendar[j] = b

IsPrefix(a, b) == Len(a) <= Len(b) /\ a = SubSeq(b, 1, Len(a))

FullTrail == <<"submitted", "validating", "encoding", "predicting",
               "rendering", "idle">>
InvalidTrail == <<"submitted", "validating", "idle">>
FailedTrail == <<"submitted", "validating", "encoding", "predicting", "idle">>

-----------------------------------------------------------------------------
(* Properties *)

\* C1: a submission whose year, month and day (within the form's ranges) do
\* not form a real calendar date ends with the "Invalid date entered!" error,
\* with no call to the scaler, the model or the chart, and with no predicted
\* price on the page.
C1_InvalidDateNoPrediction ==
    (Entered("validating") /\ pc # "validating" /\ InFormRange
     /\ ~RealDate(widgets.year, widgets.month, widgets.day))
    => /\ pc = "idle"
       /\ Shown("error", INVALID_DATE)
       /\ calls = <<>>
       /\ ~Shown("markdown", PREDICTED)
       /\ ~Shown("pyplot", "fig")
       /\ ~Shown("warning", NO_HISTORY)

C1_Witness ==
    /\ pc = "idle" /\ OnDate(2024, 2, 30)
    /\ Shown("error", INVALID_DATE) /\ calls = <<>>

\* C2: when transform or predict raises, the run ends with a "Prediction
\* error" message carrying the underlying message, each step was called at
\* most once, and neither the predicted price nor the trend (chart or no-data
\* warning) is on the page; the predicted price is on the page only when both
\* transform and predict returned.
C2_NoPartialResults ==
    /\ Raised =>
         /\ pc = "idle"
         /\ \E i \in DOMAIN out :
               /\ out[i].kind = "error" /\ out[i].text = PREDICTION_ERROR
               /\ out[i].arg = <<IF Returned("transform") THEN "predict raises"
                                 ELSE "transform raises">>
         /\ CountCalls("transform") = 1 /\ CountCalls("predict") <= 1
         /\ ~Shown("markdown", PREDICTED)
         /\ ~Shown("pyplot", "fig") /\ ~Shown("warning", NO_HISTORY)
         /\ ~Called("plot") /\ ~Called("axhline") /\ ~Called("pyplot")
    /\ Shown("markdown", PREDICTED) =>
         Returned("transform") /\ Returned("predict") /\ ~Raised

C2_Witness ==
    /\ pc = "idle" /\ Raised /\ Returned("transform")
    /\ Shown("error", PREDICTION_ERROR)

\* C3: if an artifact or the data file cannot be loaded, or a required column
\* is absent, the run never reaches the form: it halts with an error (which in
\* the column case names exactly the missing columns), the button is never
\* pressed and nothing is predicted or plotted.
C3_ConfigErrorsFatal ==
    ConfigBroken =>
      /\ pc \in {"set_bg", "load_models", "load_dataset", "check_columns", "halted"}
      /\ ~button /\ widgets = NoWidgets /\ calls = <<>> /\ trail = <<>>
      /\ ~Shown("markdown", PREDICTED) /\ ~Shown("pyplot", "fig")
      /\ pc = "halted" =>
           \E i \in DOMAIN out :
              /\ out[i].kind = "error"
              /\ \/ out[i].text = MODEL_ERROR
                    /\ \E f \in Range(ArtifactFiles) : ~CanLoad(f)
                 \/ out[i].text = CSV_ERROR /\ ~CanLoad(CSV_FILE)
                 \/ /\ out[i].text = COLUMNS_ERROR
                    /\ Range(out[i].arg) = RequiredSet \ csvCols
                    /\ out[i].arg # <<>>

C3_Witness ==
    /\ pc = "halted" /\ "price" \notin csvCols
    /\ \E i \in DOMAIN out :
          out[i].text = COLUMNS_ERROR /\ out[i].arg = <<"price">>

\* C4: the row handed to the scaler has exactly the schema's columns in the
\* schema's order; a schema column the encoding produced keeps its encoded
\* value, any other schema column is 0, and no column outside the schema
\* remains.
C4_ReindexToSchema ==
    Entered("predicting") =>
      /\ Len(input_encoded) = Len(X_columns)
      /\ \A i \in DOMAIN X_columns :
           LET produced == get_dummies(widgets, week)
               hits == {j \in DOMAIN produced : produced[j].name = X_columns[i]}
           IN  /\ input_encoded[i].name = X_columns[i]
               /\ IF hits = {} THEN input_encoded[i].value = 0
                  ELSE \E j \in hits : input_encoded[i].value = produced[j].value

C4_Witness ==
    /\ Entered("predicting")
    /\ X_columns = <<"commodity_Maize", "commodity_Beans">>
    /\ input_encoded = <<Col("commodity_Maize", 1), Col("commodity_Beans", 0)>>

\* C5 as stated: whenever every artifact exists at some candidate path (the
\* bare name or the name under a subdirectory), the loader returns the objects
\* and raises no fatal error.
C5_SearchesCandidates ==
    (/\ pc \notin {"set_bg", "load_models"}
     /\ \A f \in Range(ArtifactFiles) : CanLoad(f) \/ CanLoad(UnderSubdir(f)))
    => /\ ~Shown("error", MODEL_ERROR)
       /\ loaded_model = "model" /\ sc = "scaler" /\ X_columns = pklColumns

\* C5 amended: the loader opens one path per artifact, the bare name in the
\* working directory; the objects are loaded when all three bare names load,
\* and otherwise the run halts with the model-files error naming the first
\* that failed, whether or not a copy lies under a subdirectory.
C5_BareNameOnly ==
    pc \notin {"set_bg", "load_models"} =>
      IF \A f \in Range(ArtifactFiles) : CanLoad(f)
      THEN /\ ~Shown("error", MODEL_ERROR)
           /\ loaded_model = "model" /\ sc = "scaler" /\ X_columns = pklColumns
      ELSE /\ pc = "halted"
           /\ X_columns = <<>>
           /\ \E i \in DOMAIN out :
                 /\ out[i].kind = "error" /\ out[i].text = MODEL_ERROR
                 /\ Len(out[i].arg) = 1 /\ ~CanLoad(out[i].arg[1])

C5_Witness ==
    /\ pc = "halted"
    /\ MODEL_FILE \notin fs /\ UnderSubdir(MODEL_FILE) \in fs
    /\ Shown("error", MODEL_ERROR)

\* C6: after a successful prediction, when no dataset row equals the selection
\* in commodity, region and market, the no-historical-data warning is shown
\* and plot, axhline and pyplot are not called; the chart is drawn exactly when
\* at least one row matches all three.
C6_NoHistoryNoChart ==
    (Entered("rendering") /\ pc = "idle") =>
      IF Matching = {}
      THEN /\ Shown("warning", NO_HISTORY)
           /\ ~Called("plot") /\ ~Called("axhline") /\ ~Called("pyplot")
           /\ ~Shown("pyplot", "fig")
      ELSE /\ Called("plot") /\ Called("axhline") /\ Called("pyplot")
           /\ Shown("pyplot", "fig")
           /\ ~Shown("warning", NO_HISTORY)

C6_Witness ==
    /\ Entered("rendering") /\ pc = "idle"
    /\ food # <<>> /\ Matching = {}
    /\ \E i \in DOMAIN food : /\ food[i]["commodity"] = widgets.commodity
                              /\ food[i]["admin1"] = widgets.region
    /\ Shown("warning", NO_HISTORY) /\ ~Called("plot")

\* C7 as stated: a schema column named field=value, for a field's selected
\* value, receives that field's indicator.
C7_EqualsNames ==
    Entered("predicting") =>
      \A k \in DOMAIN InputCats, i \in DOMAIN X_columns :
         LET field == InputCats[k][1]
             value == widgets[InputCats[k][2]]
         IN  (value # None /\ X_columns[i] = field \o "=" \o value)
             => input_encoded[i].value = 1

\* C7 amended: the indicator column of a categorical field is named
\* field_value (field name, underscore, selected value); a schema column of
\* that name receives 1, and a schema column named field=value receives 0.
C7_UnderscoreNames ==
    Entered("predicting") =>
      \A k \in DOMAIN InputCats, i \in DOMAIN X_columns :
         LET field == InputCats[k][1]
             value == widgets[InputCats[k][2]]
         IN  value # None =>
               /\ X_columns[i] = field \o "_" \o value
                    => input_encoded[i].value = 1
               /\ X_columns[i] = field \o "=" \o value
                    => input_encoded[i].value = 0

C7_Witness ==
    /\ Entered("predicting")
    /\ widgets.commodity = "Maize"
    /\ X_columns = <<"week", "commodity=Maize", "commodity_Maize">>
    /\ input_encoded[2].value = 0 /\ input_encoded[3].value = 1

\* C8, the order of one submission: the phases entered form a prefix of
\* submitted, validating, encoding, predicting, rendering, idle, or end in
\* idle straight after validating (invalid date) or predicting (prediction
\* error) with the error on the page; encoding is entered only for a real
\* date; price and trend are on the page only after predict returned.
C8_Order ==
    /\ \/ trail = <<>> /\ ~button
       \/ IsPrefix(trail, FullTrail)
       \/ trail = InvalidTrail
       \/ trail = FailedTrail
    /\ pc \in {"validating", "encoding", "predicting", "rendering"}
         => pc = trail[Len(trail)]
    /\ Entered("idle") => pc = "idle"
    /\ Entered("encoding")
         => RealDate(widgets.year, widgets.month, widgets.day)
    /\ trail = InvalidTrail => Shown("error", INVALID_DATE) /\ calls = <<>>
    /\ trail = FailedTrail
         => Shown("error", PREDICTION_ERROR) /\ ~Shown("markdown", PREDICTED)
    /\ Shown("markdown", PREDICTED)
         => Entered("rendering") /\ Returned("predict")
    /\ (Called("plot") \/ Shown("warning", NO_HISTORY))
         => trail = FullTrail /\ Shown("markdown", PREDICTED)

\* C8: every submission follows that order, and every submission eventually
\* returns to idle.
C8_SubmissionOrder ==
    /\ []C8_Order
    /\ []((button /\ pc # "idle") => <>(pc = "idle"))

C8_Witness ==
    /\ trail = FullTrail /\ pc = "idle"
    /\ Shown("markdown", PREDICTED) /\ Called("plot")

\* C9: the series passed to the line chart holds exactly the matching rows,
\* each date with its own row's price, in ascending date order whatever the
\* order of the rows in the dataset (rows without a date come last); the
\* dataset is still what was loaded.
C9_SeriesSortedByDate ==
    Called("plot") =>
      LET x == PlotArgs[1]
          y == PlotArgs[2]
      IN  /\ Len(x) = Cardinality(Matching) /\ Len(y) = Len(x)
          /\ \A i, j \in DOMAIN x :
                i < j => /\ x[i] = NaT => x[j] = NaT
                         /\ x[j] # NaT => NotAfter(x[i], x[j])
          /\ \A r \in Matching :
                Cardinality({i \in DOMAIN x : /\ x[i] = food[r]["date"]
                                              /\ y[i] = food[r]["price"]})
                = Cardinality({q \in Matching :
                                 /\ food[q]["date"] = food[r]["date"]
                                 /\ food[q]["price"] = food[r]["price"]})
          /\ food = convert_date(read_csv(csvCols, csvRows))

C9_Witness ==
    /\ Called("plot")
    /\ Cardinality(Matching) = 3
    /\ \E i, j \in Matching :
          i < j /\ food[i]["date"] # food[j]["date"]
                /\ NotAfter(food[j]["date"], food[i]["date"])
    /\ PlotArgs[1] = <<"2023-05-15 00:00:00", "2023-06-01 00:00:00",
                       "2023-07-01 00:00:00">>
    /\ PlotArgs[2] = <<1500, 1000, 1200>>

\* C10: for every real date within the form's ranges the derived week is the
\* ISO 8601 week of that date, also across year boundaries, and the year
\* feature handed on is the entered calendar year.
C10_IsoWeek ==
    (Entered("encoding") /\ InFormRange) =>
      /\ week = ISOWeek(widgets.year, widgets.month, widgets.day)
      /\ OnDate(2024, 1, 1) => week = 1
      /\ OnDate(2024, 12, 31) => week = 1
      /\ OnDate(2021, 1, 1) => week = 53
      /\ OnDate(2026, 12, 31) => week = 53
      /\ OnDate(2000, 1, 1) => week = 52
      /\ Entered("predicting") =>
           \E i \in DOMAIN input_encoded :
              input_encoded[i] = Col("year", widgets.year)

C10_Witness ==
    /\ Entered("predicting") /\ OnDate(2024, 12, 31)
    /\ week = 1
    /\ input_encoded[1] = Col("year", 2024)

====
